---- MODULE Spec2Model ----
(***************************************************************************)
(* JACL: lexer (lex), recursive-descent parser (parse, _parse_section) and *)
(* document model (Variable, Section, JACL) of src/jacl/main.py.           *)
(*                                                                         *)
(* Texts and words are sequences of one-character strings.  Python values  *)
(* are records of one shape, tagged by k: "str", "int", "float", "bool",   *)
(* "null" or "list".  A float is the exact decimal n / 10^d; int() and     *)
(* float() are modelled on the characters of Chars.                        *)
(*                                                                         *)
(* Spec      loads: lex on a text, then parse on the tokens lex returns.   *)
(* LexSpec   lex alone, from its call to its return or its exception.     *)
(* ParseSpec parse on a token list.                                        *)
(* DocSpec   a caller adding Variables and Sections to one Section.        *)
(* RootSpec  a caller of JACL: add, item assignment and keyed lookups.      *)
(***************************************************************************)
EXTENDS Integers, Sequences, FiniteSets, TLC

VARIABLES text,     \* the input handed to lex (never changed afterwards)
          view,     \* TextView._txt, the unread characters
          tokens,   \* lex's local list of tokens
          lexst,    \* "idle", "run", "done" or the exception lex raised
          input,    \* the token list handed to parse (never changed afterwards)
          ptoks,    \* the token list parse and _parse_section pop from
          stack,    \* Sections of the active _parse_section calls, innermost last
          jacl,     \* JACL._sections of the document parse builds
          pst,      \* "idle", "run", "done" or the exception parse raised
          result,   \* what loads returns: <<>> (nothing) or <<sections>>
          skipped,  \* the tokens popped by a loop iteration that did nothing else
          sec,      \* a Section object a caller adds to
          prev,     \* sec before the caller's latest add
          arg,      \* the value of the caller's latest add, <<>> before the first
          err,      \* the exception of the caller's latest add, "" when none
          nadds,    \* number of adds the caller has made
          root,     \* JACL._sections of a document a caller builds and reads
          rop,      \* the caller's latest add or item assignment on the document
          got       \* the caller's latest keyed lookup and what it returned

vars == <<text, view, tokens, lexst, input, ptoks, stack, jacl, pst, result,
          skipped, sec, prev, arg, err, nadds, root, rop, got>>

lexVars == <<text, view, tokens, lexst>>
parseVars == <<input, ptoks, stack, jacl, pst, result, skipped>>
docVars == <<sec, prev, arg, err, nadds, root, rop, got>>

----------------------------------------------------------------------------
(* Characters *)

DQ == "\""
SQ == "'"
NL == "\n"
SP == " "
HASH == "#"

Digits == {"0", "1", "2", "3", "4", "5", "6", "7", "8", "9"}

DigitVal(c) ==
  CASE c = "0" -> 0 [] c = "1" -> 1 [] c = "2" -> 2 [] c = "3" -> 3
    [] c = "4" -> 4 [] c = "5" -> 5 [] c = "6" -> 6 [] c = "7" -> 7
    [] c = "8" -> 8 [] c = "9" -> 9

\* The characters of the model's texts, grouped by code point.
LettersLower == {"a", "e", "f", "l", "n", "o", "r", "s", "t", "u", "x", "y"}
LettersUpper == {"F", "N", "T"}
Chars == {SP, NL, DQ, SQ, HASH, "{", "}", "."} \cup Digits
           \cup LettersLower \cup LettersUpper

\* ord(c), the code point of a character.
Ord(c) ==
  CASE c = NL -> 10 [] c = SP -> 32 [] c = DQ -> 34 [] c = HASH -> 35
    [] c = SQ -> 39 [] c = "." -> 46 [] c = "{" -> 123 [] c = "}" -> 125
    [] c \in Digits -> 48 + DigitVal(c)
    [] c = "F" -> 70 [] c = "N" -> 78 [] c = "T" -> 84
    [] c = "a" -> 97 [] c = "e" -> 101 [] c = "f" -> 102 [] c = "l" -> 108
    [] c = "n" -> 110 [] c = "o" -> 111 [] c = "r" -> 114
    [] c = "s" -> 115 [] c = "t" -> 116 [] c = "u" -> 117 [] c = "x" -> 120
    [] c = "y" -> 121

\* TextView.isalnum: every code point strictly between 32 and 123.
isalnum(c) == 32 < Ord(c) /\ Ord(c) < 123

\* str.lower on one character.
LowerChar(c) == CASE c = "F" -> "f" [] c = "N" -> "n" [] c = "T" -> "t" [] OTHER -> c

lower(w) == [i \in 1..Len(w) |-> LowerChar(w[i])]

----------------------------------------------------------------------------
(* Python values *)

StrV(s) == [k |-> "str", s |-> s, n |-> 0, d |-> 0, items |-> <<>>]
IntV(n) == [k |-> "int", s |-> <<>>, n |-> n, d |-> 0, items |-> <<>>]
\* a float n / 10^d, with n not a multiple of 10 unless d = 0
FloatV(n, d) == [k |-> "float", s |-> <<>>, n |-> n, d |-> d, items |-> <<>>]
TrueV == [k |-> "bool", s |-> <<>>, n |-> 1, d |-> 0, items |-> <<>>]
FalseV == [k |-> "bool", s |-> <<>>, n |-> 0, d |-> 0, items |-> <<>>]
\* the float nan
NaNV == [k |-> "float", s |-> <<"n", "a", "n">>, n |-> 0, d |-> 0, items |-> <<>>]
NoneV == [k |-> "null", s |-> <<>>, n |-> 0, d |-> 0, items |-> <<>>]
ListV(items) == [k |-> "list", s |-> <<>>, n |-> 0, d |-> 0, items |-> items]

IsList(v) == v.k = "list"
IsScalar(v) == v.k \in {"str", "int", "float", "bool", "null"}

----------------------------------------------------------------------------
(* Numeric coercion: int(word), float(word) *)

IsDigits(w) == Len(w) > 0 /\ \A i \in 1..Len(w) : w[i] \in Digits

RECURSIVE DigitsVal(_)
DigitsVal(w) ==
  IF Len(w) = 0 THEN 0
  ELSE 10 * DigitsVal(SubSeq(w, 1, Len(w) - 1)) + DigitVal(w[Len(w)])

Pow10(e) == IF e = 0 THEN 1 ELSE LET p[i \in 0..e] == IF i = 0 THEN 1 ELSE 10 * p[i - 1] IN p[e]

Positions(w, c) == {i \in 1..Len(w) : w[i] = c}

\* int(word) succeeds: over Chars (no sign, no underscore) a run of digits.
IsIntLiteral(w) == IsDigits(w)

IntOf(w) == DigitsVal(w)

\* digits with at most one point and at least one digit: "1.5", ".5", "1."
IsMantissa(w) ==
  /\ Cardinality(Positions(w, ".")) <= 1
  /\ \A i \in 1..Len(w) : w[i] \in Digits \cup {"."}
  /\ \E i \in 1..Len(w) : w[i] \in Digits

\* "nan" in any letter case
IsNaN(w) == lower(w) = <<"n", "a", "n">>

\* float(word) succeeds: over Chars (no sign, no "inf", no "E") "nan" or
\* a mantissa, optionally followed by "e" and a run of digits.
IsFloatLiteral(w) ==
  LET es == Positions(w, "e") IN
    IF IsNaN(w) THEN TRUE
    ELSE IF es = {} THEN IsMantissa(w)
    ELSE /\ Cardinality(es) = 1
         /\ LET p == CHOOSE i \in es : TRUE IN
              /\ IsMantissa(SubSeq(w, 1, p - 1))
              /\ IsDigits(SubSeq(w, p + 1, Len(w)))

RECURSIVE Normal(_, _)
\* n / 10^d without trailing zeros in the fraction
Normal(n, d) ==
  IF d > 0 /\ n % 10 = 0 THEN Normal(n \div 10, d - 1) ELSE FloatV(n, d)

FloatOf(w) ==
  LET es == Positions(w, "e")
      p == IF es = {} THEN Len(w) + 1 ELSE CHOOSE i \in es : TRUE
      mant == SubSeq(w, 1, p - 1)
      ex == IF es = {} THEN 0 ELSE DigitsVal(SubSeq(w, p + 1, Len(w)))
      dots == Positions(mant, ".")
      dot == IF dots = {} THEN Len(mant) + 1 ELSE CHOOSE i \in dots : TRUE
      frac == Len(mant) - dot
      fracLen == IF frac < 0 THEN 0 ELSE frac
      m == DigitsVal(SelectSeq(mant, LAMBDA c : c # "."))
  IN IF IsNaN(w) THEN NaNV
     ELSE IF ex >= fracLen THEN FloatV(m * Pow10(ex - fracLen), 0)
     ELSE Normal(m, fracLen - ex)

\* lex lines 315-321: word = int(word), else float(word), else the string
Coerce(w) ==
  IF IsIntLiteral(w) THEN IntV(IntOf(w))
  ELSE IF IsFloatLiteral(w) THEN FloatOf(w)
  ELSE StrV(w)

----------------------------------------------------------------------------
(* Tokens *)

TokenTypes == {"OPEN_CURLY", "CLOSE_CURLY", "WORD", "BOOL_TRUE", "BOOL_FALSE",
               "INTEGER", "FLOAT", "NONE"}

Token(type, value) == [type |-> type, value |-> value]

\* keywords, in the order of the table
keywords == << <<<<"t", "r", "u", "e">>, "BOOL_TRUE">>, <<<<"f", "a", "l", "s", "e">>, "BOOL_FALSE">>,
               <<<<"n", "o", "n", "e">>, "NONE">> >>

\* get_token_type comparing the word as written, without lower()
get_token_type_cased(w) ==
  IF w.k = "int" THEN "INTEGER"
  ELSE IF w.k = "float" THEN "FLOAT"
  ELSE LET hits == {i \in 1..Len(keywords) : w.s = keywords[i][1]} IN
         IF hits # {} THEN keywords[CHOOSE i \in hits : \A j \in hits : i <= j][2]
         ELSE "WORD"

\* TokenType.get_token_type of the coerced word
get_token_type(w) ==
  IF w.k = "int" THEN "INTEGER"
  ELSE IF w.k = "float" THEN "FLOAT"
  ELSE LET hits == {i \in 1..Len(keywords) : lower(w.s) = lower(keywords[i][1])} IN
         IF hits # {} THEN keywords[CHOOSE i \in hits : \A j \in hits : i <= j][2]
         ELSE "WORD"

\* Token.determine_value
determine_value(type, w) ==
  CASE type = "BOOL_TRUE" -> TrueV
    [] type = "BOOL_FALSE" -> FalseV
    [] type = "NONE" -> NoneV
    [] type \in {"INTEGER", "FLOAT", "WORD"} -> w
    [] OTHER -> NoneV

\* Op applied to the value of e, which is computed once
Bind(e, Op(_)) == CHOOSE r \in {Op(x) : x \in {e}} : TRUE

\* lex lines 315-323: the token of a word
WordToken(word) ==
  Bind(Coerce(word), LAMBDA w :
    Bind(get_token_type(w), LAMBDA type : Token(type, determine_value(type, w))))

----------------------------------------------------------------------------
(* TextView *)

\* TextView.triml / checkl raise OverflowError when n > len(self)
CanRead(v, n) == n <= Len(v)

checkl(v, n) == SubSeq(v, 1, n)

\* a triml that returns the characters and leaves them in the text
trimlKeep(v, n) == v

\* the text left after triml(n)
triml(v, n) == SubSeq(v, n + 1, Len(v))

\* `while view.checkl() != c: view.triml()`: the number of characters
\* trimmed before c is seen, or -1 when the view empties first (OverflowError)
ScanChar(v, c) ==
  LET hits == Positions(v, c) IN
    IF hits = {} THEN -1 ELSE (CHOOSE i \in hits : \A j \in hits : i <= j) - 1

\* `while view.checkl(3) != "###": view.triml()`: the number of characters
\* trimmed before "###" is seen, or -1 when fewer than 3 remain first
ScanBlockEnd(v) ==
  LET hits == {i \in 1..Len(v) - 2 : SubSeq(v, i, i + 2) = <<HASH, HASH, HASH>>} IN
    IF hits = {} THEN -1 ELSE (CHOOSE i \in hits : \A j \in hits : i <= j) - 1

\* `while len(view) > 0 and isalnum(view.checkl())`: length of the run
RECURSIVE WordRun(_)
WordRun(v) == IF Len(v) > 0 /\ isalnum(v[1]) THEN 1 + WordRun(Tail(v)) ELSE 0

----------------------------------------------------------------------------
(* lex: one iteration of `while len(view) > 0` *)

LexState(v, toks, st) == [view |-> v, tokens |-> toks, st |-> st]

\* a string literal that the end of the text may close
LexQuotedLenient(v, toks, q) ==
  LET n == ScanChar(v, q) IN
    IF n < 0 THEN LexState(<<>>, Append(toks, Token("WORD", StrV(v))), "run")
    ELSE LexState(triml(v, n + 1), Append(toks, Token("WORD", StrV(checkl(v, n)))), "run")

\* a string literal whose content is classified like an unquoted word
LexQuotedClassified(v, toks, q) ==
  LET n == ScanChar(v, q) IN
    IF n < 0 THEN LexState(<<>>, toks, "UnterminatedStringLiteral")
    ELSE LexState(triml(v, n + 1),
                  Append(toks, IF n = 0 THEN Token("WORD", StrV(<<>>)) ELSE WordToken(checkl(v, n))),
                  "run")

\* lines 249-273: a string literal opened by quote character q
LexQuoted(v, toks, q) ==
  LET n == ScanChar(v, q) IN
    IF n < 0 THEN LexState(<<>>, toks, "UnterminatedStringLiteral")
    ELSE LexState(triml(v, n + 1), Append(toks, Token("WORD", StrV(checkl(v, n)))), "run")

\* a comment lexed without the test for a block comment
LexCommentLineOnly(v, toks) ==
  IF ~CanRead(v, 2) THEN LexState(v, toks, "OverflowError")
  ELSE LET n == ScanChar(v, NL) IN
         IF n < 0 THEN LexState(<<>>, toks, "CommentLineError")
         ELSE LexState(triml(v, n), toks, "run")

\* lines 283-305: a comment
LexComment(v, toks) ==
  IF ~CanRead(v, 2) THEN LexState(v, toks, "OverflowError")
  ELSE IF checkl(v, 2) = <<HASH, HASH>> THEN
    LET rest == triml(v, 2)
        n == ScanBlockEnd(rest)
        left == IF Len(rest) < 2 THEN Len(rest) ELSE 2
    IN IF n < 0 THEN LexState(triml(rest, Len(rest) - left), toks, "UnterminatedCommentBlock")
       ELSE LexState(triml(rest, n + 3), toks, "run")
  ELSE
    LET n == ScanChar(v, NL) IN
      IF n < 0 THEN LexState(<<>>, toks, "CommentLineError")
      ELSE LexState(triml(v, n), toks, "run")

\* lines 307-325: a run of word characters starting with char
LexWord(char, v, toks) ==
  Bind(WordRun(v), LAMBDA n :
    Bind(<<char>> \o checkl(v, n), LAMBDA word :
      LexState(triml(v, n), Append(toks, WordToken(word)), "run")))

\* the body of the loop on a non-empty view
LexIter(v, toks) ==
  LET char == v[1]
      rest == triml(v, 1)
  IN CASE char = DQ -> LexQuoted(rest, toks, DQ)
       [] char = SQ -> LexQuoted(rest, toks, SQ)
       [] char = "{" -> LexState(rest, Append(toks, Token("OPEN_CURLY", NoneV)), "run")
       [] char = "}" -> LexState(rest, Append(toks, Token("CLOSE_CURLY", NoneV)), "run")
       [] char = HASH -> LexComment(rest, toks)
       [] OTHER -> IF isalnum(char) THEN LexWord(char, rest, toks)
                   ELSE LexState(rest, toks, "run")

\* lex as a function: the exception raised, or "done" and the tokens returned
RECURSIVE LexRun(_, _)
LexRun(v, toks) ==
  IF Len(v) = 0 THEN [st |-> "done", tokens |-> toks]
  ELSE LET r == LexIter(v, toks) IN
         IF r.st = "run" THEN LexRun(r.view, r.tokens)
         ELSE [st |-> r.st, tokens |-> <<>>]

LexErrors == {"UnterminatedStringLiteral", "UnterminatedCommentBlock",
              "CommentLineError", "OverflowError"}

----------------------------------------------------------------------------
(* Document model: Variable, Section, JACL *)

Variable(name, value) == [name |-> name, value |-> value]

Section(name, variables, subsections) ==
  [name |-> name, variables |-> variables, subsections |-> subsections]

NewSection(name) == Section(name, <<>>, <<>>)

IsVariable(x) == "value" \in DOMAIN x
IsSection(x) == "subsections" \in DOMAIN x

\* [x for x in seq if x.name == name]
Matching(seq, name) == SelectSeq(seq, LAMBDA x : x.name = name)

\* seq.index(x): the first position holding a value equal to x
IndexOf(seq, x) == CHOOSE i \in 1..Len(seq) : seq[i] = x /\ \A j \in 1..(i - 1) : seq[j] # x

\* seq after seq.pop(i)
Pop(seq, i) == SubSeq(seq, 1, i - 1) \o SubSeq(seq, i + 1, Len(seq))

\* the promotion without the isinstance(v.value, list) test
PromoteAlways(v, value) == Variable(v.name, ListV(<<v.value, value>>))

\* lines 52-61: the popped variable v with value appended, a scalar promoted
Promote(v, value) ==
  IF IsList(v.value) THEN Variable(v.name, ListV(Append(v.value.items, value)))
  ELSE Variable(v.name, ListV(<<v.value, value>>))

\* Section.add of a Variable that never looks for the name
AddVariableAppendOnly(self, value) ==
  [self EXCEPT !.variables = Append(self.variables, value)]

\* lines 48-64: Section.add of a Variable
AddVariable(self, value) ==
  LET matching == Matching(self.variables, value.name) IN
    IF Len(matching) = 1 THEN
      LET idx == IndexOf(self.variables, matching[1])
          v == self.variables[idx]
      IN [self EXCEPT !.variables = Append(Pop(self.variables, idx), Promote(v, value.value))]
    ELSE [self EXCEPT !.variables = Append(self.variables, value)]

RECURSIVE SectionAdd(_, _)
RECURSIVE AddAll(_, _)

\* `for x in items: s.add(x)`
AddAll(s, items) ==
  IF Len(items) = 0 THEN s ELSE AddAll(SectionAdd(s, Head(items)), Tail(items))

\* Section.add of a Section that replaces the existing one instead of merging
AddSubsectionReplace(self, value) ==
  LET matching == Matching(self.subsections, value.name) IN
    IF Len(matching) = 1 THEN
      LET idx == IndexOf(self.subsections, matching[1]) IN
        [self EXCEPT !.subsections = Append(Pop(self.subsections, idx), value)]
    ELSE [self EXCEPT !.subsections = Append(self.subsections, value)]

\* lines 65-78: Section.add of a Section
AddSubsection(self, value) ==
  LET matching == Matching(self.subsections, value.name) IN
    IF Len(matching) = 1 THEN
      LET idx == IndexOf(self.subsections, matching[1])
          s == self.subsections[idx]
          merged == AddAll(AddAll(s, value.variables), value.subsections)
      IN [self EXCEPT !.subsections = Append(Pop(self.subsections, idx), merged)]
    ELSE [self EXCEPT !.subsections = Append(self.subsections, value)]

\* Section.add
SectionAdd(self, value) ==
  IF IsVariable(value) THEN AddVariable(self, value) ELSE AddSubsection(self, value)

RECURSIVE AddAsserts(_, _)
RECURSIVE AddAllAsserts(_, _)

AddAllAsserts(s, items) ==
  /\ Len(items) > 0
  /\ \/ AddAsserts(s, Head(items))
     \/ AddAllAsserts(SectionAdd(s, Head(items)), Tail(items))

\* Section.add raises AssertionError (lines 50, 67), here or in a nested add
AddAsserts(self, value) ==
  IF IsVariable(value) THEN Len(Matching(self.variables, value.name)) > 1
  ELSE LET matching == Matching(self.subsections, value.name) IN
         \/ Len(matching) > 1
         \/ /\ Len(matching) = 1
            /\ LET s == self.subsections[IndexOf(self.subsections, matching[1])] IN
                 \/ AddAllAsserts(s, value.variables)
                 \/ AddAllAsserts(AddAll(s, value.variables), value.subsections)

\* JACL.add without the check for an existing name
JaclAddUnchecked(sections, section) ==
  [err |-> "", sections |-> Append(sections, section)]

\* JACL.add: the exception raised ("" when none) and the sections afterwards
JaclAdd(sections, section) ==
  LET matching == Matching(sections, section.name) IN
    IF Len(matching) > 1 THEN [err |-> "AssertionError", sections |-> sections]
    ELSE IF Len(matching) = 1
      THEN [err |-> "DuplicateTopLevelSection", sections |-> sections]
      ELSE [err |-> "", sections |-> Append(sections, section)]

\* JACL.__setitem__ without the comparison of the key with the name
JaclSetItemAnyKey(sections, key, value) ==
  IF ~IsSection(value) THEN [err |-> "ValueError", sections |-> sections]
  ELSE JaclAdd(sections, value)

\* JACL.__setitem__: the exception raised ("" when none) and the sections
JaclSetItem(sections, key, value) ==
  IF ~IsSection(value) THEN [err |-> "ValueError", sections |-> sections]
  ELSE IF key # value.name THEN [err |-> "KeyMismatch", sections |-> sections]
  ELSE JaclAdd(sections, value)

\* what a keyed lookup gives: a Section, a variable's value, or KeyError
Lookup(kind, value) == [kind |-> kind, value |-> value]

\* the first position of seq that holds the name key, 0 when there is none
FirstNamed(seq, key) ==
  LET hits == {i \in 1..Len(seq) : seq[i].name = key} IN
    IF hits = {} THEN 0 ELSE CHOOSE i \in hits : \A j \in hits : i <= j

\* Section.__getitem__ with the two loops in the other order
SectionGetItemVarsFirst(self, key) ==
  LET si == FirstNamed(self.subsections, key)
      vi == FirstNamed(self.variables, key)
  IN IF vi > 0 THEN Lookup("value", self.variables[vi].value)
     ELSE IF si > 0 THEN Lookup("Section", self.subsections[si])
     ELSE Lookup("UnknownKey", NoneV)

\* Section.__getitem__
SectionGetItem(self, key) ==
  LET si == FirstNamed(self.subsections, key)
      vi == FirstNamed(self.variables, key)
  IN IF si > 0 THEN Lookup("Section", self.subsections[si])
     ELSE IF vi > 0 THEN Lookup("value", self.variables[vi].value)
     ELSE Lookup("UnknownKey", NoneV)

\* JACL.__getitem__
JaclGetItem(sections, key) ==
  LET si == FirstNamed(sections, key) IN
    IF si > 0 THEN Lookup("Section", sections[si])
    ELSE Lookup("UnknownKey", NoneV)

----------------------------------------------------------------------------
(* Inputs *)

MaxPieces == 4     \* pieces of an input text
MaxGroups == 4     \* token groups of an input token list
MaxDefs == 7       \* definitions of one name in a list text
MaxRepeat == 5     \* definitions in the body of a repeat input
MaxAdds == 3       \* adds a caller makes to one Section
MaxTail == 2       \* pieces after the word of a word text

\* every concatenation of at most n members of set
ConcatsOf(set, n) ==
  LET upto[k \in 0..n] ==
        IF k = 0 THEN {<<>>}
        ELSE {<<>>} \cup {p \o t : p \in set, t \in upto[k - 1]}
  IN upto[n]

TextPieces == { <<SP>>, <<NL>>, <<HASH>>, <<HASH, HASH, HASH>>, <<DQ>>,
                <<"{">>, <<"}">>, <<"x">> }

DigitChar(d) == CHOOSE c \in Digits : DigitVal(c) = d

\* s{ x 1 x 2 ... x n }, one definition per line
RECURSIVE ListLines(_)
ListLines(n) ==
  IF n = 0 THEN <<>> ELSE ListLines(n - 1) \o <<"x", SP, DigitChar(n), NL>>

ListText(n) == <<"s", "{", NL>> \o ListLines(n) \o <<"}", NL>>

ListTexts == {ListText(n) : n \in 1..MaxDefs}

CommentBodies == { <<>>, <<"x">>, <<"{", NL, "x", SP, "1">>, <<HASH>>, <<"x", HASH>>,
                   <<NL, "s", "{", "}", NL>> }

BlockComment(body) == <<HASH, HASH, HASH>> \o body \o <<HASH, HASH, HASH>>

\* a block comment, set off by whitespace, between two short texts
CommentTexts ==
  { pre \o <<ws[1]>> \o BlockComment(body) \o <<ws[2]>> \o post :
      pre \in ConcatsOf(TextPieces, 1), post \in ConcatsOf(TextPieces, 2),
      body \in CommentBodies, ws \in {<<SP, SP>>, <<NL, NL>>} }

\* runs of word characters: keywords in two letter cases, numbers, words
WordRuns == { <<"t", "r", "u", "e">>, <<"T", "r", "u", "e">>,
              <<"f", "a", "l", "s", "e">>, <<"F", "a", "l", "s", "e">>,
              <<"n", "o", "n", "e">>, <<"N", "o", "n", "e">>, <<"n", "a", "n">>,
              <<"1", "5">>, <<"0", "1">>, <<"1", ".", "5">>, <<".", "5">>, <<"1", ".">>,
              <<"1", ".", "5", ".">>,
              <<"e", "1">>, <<"t", "r", "u">>, <<"n", "o", "n", "e", "1">>,
              <<"x", DQ, "y", DQ>>, <<"x", HASH>> }

\* numbers with an exponent
ExponentRuns == { <<"1", "e", "1">>, <<"1", ".", "5", "0", "e", "1">>, <<".", "5", "e", "2">> }

TailPieces == { <<SP>>, <<"{">>, <<"}">>, <<"x">>, <<"1">> }

\* one run, at the start or after a brace, followed by a short text (without
\* digits after an exponent)
WordTexts ==
  { lead \o run \o tail :
      lead \in {<<>>, <<"}">>}, run \in WordRuns,
      tail \in ConcatsOf(TailPieces, MaxTail) }
  \cup
  { lead \o run \o tail :
      lead \in {<<>>, <<"}">>}, run \in ExponentRuns,
      tail \in ConcatsOf(TailPieces \ {<<"1">>}, MaxTail) }

\* what stands between the quotes of a string
QuotedContents == { <<>>, <<"t", "r", "u", "e">>, <<"1", "5">>, <<"n", "o", "n", "e">>,
                    <<"x", SP, "{", "}", HASH, SQ>>, <<DQ, NL, "1">> }

Quoted(q, content) == <<q>> \o content \o <<q>>

\* two strings, with or without a space between them
QuotedTexts ==
  { Quoted(q1, c1) \o sep \o Quoted(q2, c2) :
      q1 \in {DQ, SQ}, q2 \in {DQ, SQ}, c1 \in QuotedContents, c2 \in QuotedContents,
      sep \in {<<>>, <<SP>>} }

Texts ==
  ConcatsOf(TextPieces, MaxPieces) \cup ListTexts \cup CommentTexts \cup WordTexts
    \cup QuotedTexts

W(name) == Token("WORD", StrV(<<name>>))
OPEN == Token("OPEN_CURLY", NoneV)
CLOSE == Token("CLOSE_CURLY", NoneV)

TokenGroups == { <<W("s"), OPEN>>, <<W("t"), OPEN>>, <<CLOSE>>,
                 <<W("x"), Token("INTEGER", IntV(1))>>,
                 <<W("y"), Token("FLOAT", FloatV(15, 1))>>,
                 <<W("x")>>, <<Token("NONE", NoneV)>> }

Definitions == { <<W("x"), Token("INTEGER", IntV(1))>>, <<W("x"), W("y")>>,
                 <<W("y"), Token("BOOL_TRUE", TrueV)>> }

\* s { d1 ... dn }: up to MaxRepeat definitions in one body
RepeatInputs ==
  { <<W("s"), OPEN>> \o body \o <<CLOSE>> : body \in ConcatsOf(Definitions, MaxRepeat) }

\* two top-level sections with short bodies
TwoSectionInputs ==
  { <<W(n[1]), OPEN>> \o b1 \o <<CLOSE, W(n[2]), OPEN>> \o b2 \o <<CLOSE>> :
      n \in {<<"s", "s">>, <<"s", "t">>},
      b1 \in ConcatsOf(Definitions, 2), b2 \in ConcatsOf(Definitions, 2) }

\* the token types _parse_section has no branch for (lines 333, 354)
BadNameTypes == TokenTypes \ {"WORD", "CLOSE_CURLY"}

BadNameTokens == { OPEN, Token("INTEGER", IntV(1)), Token("FLOAT", FloatV(15, 1)),
                   Token("BOOL_TRUE", TrueV), Token("BOOL_FALSE", FalseV),
                   Token("NONE", NoneV) }

\* s { d t u d' }: tokens t, u that are no names after at most one
\* definition, as in `a { { } }`, `a { 1 2 }` and `a { true x }`
BadNameInputs ==
  { <<W("s"), OPEN>> \o pre \o <<t>> \o mid \o post \o <<CLOSE>> :
      pre \in ConcatsOf(Definitions, 1), post \in ConcatsOf(Definitions, 1),
      t \in BadNameTokens,
      mid \in {<<>>, <<CLOSE>>, <<W("x")>>, <<Token("INTEGER", IntV(2))>>} }

\* what a nested section holds: definitions and a subsection u
Items == Definitions \cup { <<W("u"), OPEN, W("x"), Token("INTEGER", IntV(1)), CLOSE>> }

\* s { n1 { b1 } n2 { b2 } }: two nested sections, of one name or of two
NestedInputs ==
  { <<W("s"), OPEN, W(n[1]), OPEN>> \o b1 \o <<CLOSE, W(n[2]), OPEN>> \o b2
      \o <<CLOSE, CLOSE>> :
      n \in {<<"t", "t">>, <<"t", "s">>},
      b1 \in ConcatsOf(Items, 2), b2 \in ConcatsOf(Items, 2) }

TokenInputs ==
  ConcatsOf(TokenGroups, MaxGroups) \cup RepeatInputs \cup TwoSectionInputs
    \cup BadNameInputs \cup NestedInputs

----------------------------------------------------------------------------
(* lex *)

LexApply ==
  \E r \in {LexIter(view, tokens)} :
    /\ view' = r.view
    /\ tokens' = IF r.st = "run" THEN r.tokens ELSE <<>>
    /\ lexst' = r.st
    /\ UNCHANGED <<text, parseVars, docVars>>

Lexing == lexst = "run" /\ Len(view) > 0

LexString == Lexing /\ view[1] \in {DQ, SQ} /\ LexApply
LexCurly == Lexing /\ view[1] \in {"{", "}"} /\ LexApply
LexHash == Lexing /\ view[1] = HASH /\ LexApply
LexWordRun == Lexing /\ view[1] \notin {DQ, SQ, "{", "}", HASH} /\ isalnum(view[1]) /\ LexApply
LexSpace == Lexing /\ view[1] \notin {DQ, SQ, "{", "}", HASH} /\ ~isalnum(view[1]) /\ LexApply

\* line 327 and loads lines 381-382: lex returns, parse is called on the tokens
LexReturn ==
  /\ lexst = "run" /\ Len(view) = 0
  /\ lexst' = "done"
  /\ input' = tokens
  /\ ptoks' = tokens
  /\ pst' = "run"
  /\ UNCHANGED <<text, view, tokens, stack, jacl, result, skipped, docVars>>

----------------------------------------------------------------------------
(* parse and _parse_section *)

\* the value types with NONE among them
ValueTypesWithNone == {"WORD", "FLOAT", "INTEGER", "BOOL_FALSE", "BOOL_TRUE", "NONE"}

\* _parse_section lines 340-346: the token types of a value
ValueTypes == {"WORD", "FLOAT", "INTEGER", "BOOL_FALSE", "BOOL_TRUE"}

Parsing == pst = "run"
AtTop == Parsing /\ Len(stack) = 0
InSection == Parsing /\ Len(stack) > 0

Skip(tok) == Append(skipped, [depth |-> Len(stack), type |-> tok.type])

\* parse line 375: the tokens are exhausted, the document is returned
TopReturn ==
  /\ AtTop /\ Len(ptoks) = 0
  /\ pst' = "done"
  /\ result' = <<jacl>>
  /\ UNCHANGED <<lexVars, input, ptoks, stack, jacl, skipped, docVars>>

\* parse lines 365-370: WORD then OPEN_CURLY, _parse_section is called
TopSection ==
  /\ AtTop /\ Len(ptoks) > 1
  /\ ptoks[1].type = "WORD" /\ ptoks[2].type = "OPEN_CURLY"
  /\ ptoks' = Tail(Tail(ptoks))
  /\ stack' = <<NewSection(ptoks[1].value.s)>>
  /\ UNCHANGED <<lexVars, input, jacl, pst, result, skipped, docVars>>

\* parse lines 365-367: WORD then another token: the `if` has no else
TopWordOther ==
  /\ AtTop /\ Len(ptoks) > 1
  /\ ptoks[1].type = "WORD" /\ ptoks[2].type # "OPEN_CURLY"
  /\ ptoks' = Tail(ptoks)
  /\ skipped' = Skip(ptoks[1])
  /\ UNCHANGED <<lexVars, input, stack, jacl, pst, result, docVars>>

\* parse line 366: tokens[0] on an empty list
TopWordLast ==
  /\ AtTop /\ Len(ptoks) = 1 /\ ptoks[1].type = "WORD"
  /\ ptoks' = Tail(ptoks)
  /\ pst' = "IndexError"
  /\ UNCHANGED <<lexVars, input, stack, jacl, result, skipped, docVars>>

\* parse lines 372-373
TopOther ==
  /\ AtTop /\ Len(ptoks) > 0 /\ ptoks[1].type # "WORD"
  /\ ptoks' = Tail(ptoks)
  /\ pst' = "UnexpectedToken"
  /\ UNCHANGED <<lexVars, input, stack, jacl, result, skipped, docVars>>

\* _parse_section returns its section; the caller adds it (lines 338, 371)
ReturnSection ==
  LET section == stack[Len(stack)] IN
    IF Len(stack) = 1 THEN
      LET r == JaclAdd(jacl, section) IN
        /\ jacl' = r.sections
        /\ stack' = <<>>
        /\ pst' = IF r.err = "" THEN "run" ELSE r.err
    ELSE
      LET parent == stack[Len(stack) - 1] IN
        /\ jacl' = jacl
        /\ IF AddAsserts(parent, section)
             THEN /\ pst' = "AssertionError"
                  /\ stack' = SubSeq(stack, 1, Len(stack) - 1)
             ELSE /\ pst' = "run"
                  /\ stack' = Append(SubSeq(stack, 1, Len(stack) - 2),
                                     SectionAdd(parent, section))

\* _parse_section lines 354-357: CLOSE_CURLY ends the section
SecClose ==
  /\ InSection /\ Len(ptoks) > 0 /\ ptoks[1].type = "CLOSE_CURLY"
  /\ ptoks' = Tail(ptoks)
  /\ ReturnSection
  /\ UNCHANGED <<lexVars, input, result, skipped, docVars>>

\* _parse_section lines 331, 357: the loop ends with the tokens
SecExhausted ==
  /\ InSection /\ Len(ptoks) = 0
  /\ ReturnSection
  /\ UNCHANGED <<lexVars, input, ptoks, result, skipped, docVars>>

\* _parse_section lines 333-338: WORD then OPEN_CURLY, which is not popped
SecSubsection ==
  /\ InSection /\ Len(ptoks) > 1
  /\ ptoks[1].type = "WORD" /\ ptoks[2].type = "OPEN_CURLY"
  /\ ptoks' = Tail(ptoks)
  /\ stack' = Append(stack, NewSection(ptoks[1].value.s))
  /\ UNCHANGED <<lexVars, input, jacl, pst, result, skipped, docVars>>

\* _parse_section lines 340-349: WORD then a value token
SecVariable ==
  /\ InSection /\ Len(ptoks) > 1
  /\ ptoks[1].type = "WORD" /\ ptoks[2].type \in ValueTypes
  /\ ptoks' = Tail(Tail(ptoks))
  /\ LET section == stack[Len(stack)]
         value == Variable(ptoks[1].value.s, ptoks[2].value)
     IN IF AddAsserts(section, value)
          THEN pst' = "AssertionError" /\ stack' = stack
          ELSE pst' = pst /\ stack' = [stack EXCEPT ![Len(stack)] = SectionAdd(section, value)]
  /\ UNCHANGED <<lexVars, input, jacl, result, skipped, docVars>>

\* _parse_section lines 350-353: WORD then CLOSE_CURLY or NONE
SecWordOther ==
  /\ InSection /\ Len(ptoks) > 1
  /\ ptoks[1].type = "WORD" /\ ptoks[2].type \notin ValueTypes \cup {"OPEN_CURLY"}
  /\ ptoks' = Tail(ptoks)
  /\ pst' = "UnexpectedToken"
  /\ UNCHANGED <<lexVars, input, stack, jacl, result, skipped, docVars>>

\* _parse_section line 334: tokens[0] on an empty list
SecWordLast ==
  /\ InSection /\ Len(ptoks) = 1 /\ ptoks[1].type = "WORD"
  /\ ptoks' = Tail(ptoks)
  /\ pst' = "IndexError"
  /\ UNCHANGED <<lexVars, input, stack, jacl, result, skipped, docVars>>

\* _parse_section lines 333, 354: neither WORD nor CLOSE_CURLY, no else
SecOther ==
  /\ InSection /\ Len(ptoks) > 0
  /\ ptoks[1].type \notin {"WORD", "CLOSE_CURLY"}
  /\ ptoks' = Tail(ptoks)
  /\ skipped' = Skip(ptoks[1])
  /\ UNCHANGED <<lexVars, input, stack, jacl, pst, result, docVars>>

----------------------------------------------------------------------------
(* A caller of Section.add *)

VarX1 == Variable(<<"x">>, IntV(1))
VarXy == Variable(<<"x">>, StrV(<<"y">>))
VarYt == Variable(<<"y">>, TrueV)

\* values as the parser builds them: names unique within each section
DocValues ==
  { VarX1, VarXy, VarYt,
    Section(<<"s">>, <<>>, <<>>),
    Section(<<"s">>, <<VarX1>>, <<>>),
    Section(<<"s">>, <<VarXy, VarYt>>, << Section(<<"t">>, <<VarX1>>, <<>>) >>),
    Section(<<"s">>, <<>>, << Section(<<"t">>, <<VarXy>>, <<>>) >>),
    Section(<<"t">>, <<VarX1>>, <<>>),
    Section(<<"s">>, <<Variable(<<"x">>, ListV(<<IntV(1), StrV(<<"y">>)>>))>>, <<>>) }

\* sec.add(value)
DocAdd ==
  /\ nadds < MaxAdds
  /\ \E value \in DocValues :
       /\ prev' = sec
       /\ arg' = value
       /\ IF AddAsserts(sec, value)
            THEN sec' = sec /\ err' = "AssertionError"
            ELSE sec' = SectionAdd(sec, value) /\ err' = ""
  /\ nadds' = nadds + 1
  /\ UNCHANGED <<lexVars, parseVars, root, rop, got>>

----------------------------------------------------------------------------
(* A caller of JACL: add, item assignment and keyed lookup *)

VarS1 == Variable(<<"s">>, IntV(1))

\* Sections a caller adds: one has a variable and a subsection of one name
RootSections ==
  { Section(<<"s">>, <<>>, <<>>),
    Section(<<"s">>, <<VarS1, VarX1>>,
            << Section(<<"t">>, <<>>, <<>>), Section(<<"s">>, <<VarYt>>, <<>>) >>),
    Section(<<"t">>, <<Variable(<<"x">>, ListV(<<IntV(1), StrV(<<"y">>)>>)), VarYt>>,
            << Section(<<"y">>, <<VarX1>>, <<>>) >>),
    Section(<<"x">>, <<VarYt>>, <<>>) }

\* values a caller assigns: Sections and two values that are no Section
RootValues == RootSections \cup {VarX1, VarS1}

SetKeys == {<<"s">>, <<"t">>, <<"x">>}

LookupKeys == {<<"s">>, <<"t">>, <<"x">>, <<"y">>, <<"z">>}

NoCall == [call |-> "", key |-> <<>>, value |-> NewSection(<<"p">>), err |-> ""]

NoLookup == [on |-> "", at |-> 0, key |-> <<>>, kind |-> "", value |-> NoneV]

NotRoot == <<lexVars, parseVars, sec, prev, arg, err, nadds>>

\* root.add(section)
RootAdd ==
  /\ \E section \in RootSections :
       LET r == JaclAdd(root, section) IN
         /\ root' = r.sections
         /\ rop' = [call |-> "add", key |-> <<>>, value |-> section, err |-> r.err]
  /\ UNCHANGED <<NotRoot, got>>

\* root[key] = value
RootSetItem ==
  /\ \E key \in SetKeys, value \in RootValues :
       LET r == JaclSetItem(root, key, value) IN
         /\ root' = r.sections
         /\ rop' = [call |-> "set", key |-> key, value |-> value, err |-> r.err]
  /\ UNCHANGED <<NotRoot, got>>

\* root[key]
RootGetItem ==
  /\ \E key \in LookupKeys :
       LET r == JaclGetItem(root, key) IN
         got' = [on |-> "root", at |-> 0, key |-> key, kind |-> r.kind, value |-> r.value]
  /\ UNCHANGED <<NotRoot, root, rop>>

\* section[key] on a top-level section of the document
SectionGet ==
  /\ \E i \in 1..Len(root), key \in LookupKeys :
       LET r == SectionGetItem(root[i], key) IN
         got' = [on |-> "section", at |-> i, key |-> key, kind |-> r.kind, value |-> r.value]
  /\ UNCHANGED <<NotRoot, root, rop>>

----------------------------------------------------------------------------
(* Specifications *)

NoCaller ==
  /\ sec = NewSection(<<"p">>)
  /\ prev = NewSection(<<"p">>)
  /\ arg = NewSection(<<"p">>)
  /\ err = ""
  /\ nadds = 0
  /\ root = <<>>
  /\ rop = NoCall
  /\ got = NoLookup

NoParse ==
  /\ input = <<>>
  /\ ptoks = <<>>
  /\ stack = <<>>
  /\ jacl = <<>>
  /\ result = <<>>
  /\ skipped = <<>>

\* loads: lex the text, then parse the tokens
Init ==
  /\ text \in Texts
  /\ view = text
  /\ tokens = <<>>
  /\ lexst = "run"
  /\ NoParse
  /\ pst = "idle"
  /\ NoCaller

LexNext == LexString \/ LexCurly \/ LexHash \/ LexWordRun \/ LexSpace \/ LexReturn

ParseNext ==
  \/ TopReturn \/ TopSection \/ TopWordOther \/ TopWordLast \/ TopOther
  \/ SecClose \/ SecExhausted \/ SecSubsection \/ SecVariable
  \/ SecWordOther \/ SecWordLast \/ SecOther

Next == LexNext \/ ParseNext

Spec == Init /\ [][Next]_vars

\* before lex is called
LexInit ==
  /\ text = <<>>
  /\ view = <<>>
  /\ tokens = <<>>
  /\ lexst = "idle"
  /\ NoParse
  /\ pst = "idle"
  /\ NoCaller

\* lex(text): the cursor is a view of the whole text, the token list is empty
LexCall ==
  /\ lexst = "idle"
  /\ \E t \in Texts : text' = t /\ view' = t
  /\ tokens' = <<>>
  /\ lexst' = "run"
  /\ UNCHANGED <<parseVars, docVars>>

LexOnlyNext == LexCall \/ LexNext

\* lex alone, from its call to its return or its exception: lex is
\* sequential code, so the next iteration of its loop is always taken
LexSpec == LexInit /\ [][LexOnlyNext]_vars /\ WF_vars(LexNext)

\* parse on a token list
ParseInit ==
  /\ text = <<>>
  /\ view = <<>>
  /\ tokens = <<>>
  /\ lexst = "idle"
  /\ input \in TokenInputs
  /\ ptoks = input
  /\ stack = <<>>
  /\ jacl = <<>>
  /\ result = <<>>
  /\ skipped = <<>>
  /\ pst = "run"
  /\ NoCaller

ParseSpec == ParseInit /\ [][ParseNext]_vars

\* a caller adding to a Section
DocInit ==
  /\ text = <<>>
  /\ view = <<>>
  /\ tokens = <<>>
  /\ lexst = "idle"
  /\ NoParse
  /\ pst = "idle"
  /\ NoCaller

DocNext == DocAdd

DocSpec == DocInit /\ [][DocNext]_vars

\* a caller building and reading a document
RootNext == RootAdd \/ RootSetItem \/ RootGetItem \/ SectionGet

RootSpec == DocInit /\ [][RootNext]_vars

----------------------------------------------------------------------------
(* Claims *)

Names(seq) == {seq[i].name : i \in 1..Len(seq)}

Distinct(seq) == \A i, j \in 1..Len(seq) : seq[i].name = seq[j].name => i = j

\* a _parse_section call made by parse returns in this step
TopSectionCompletes == pst = "run" /\ Len(stack) = 1 /\ Len(stack') = 0

RECURSIVE Flat(_)
RECURSIVE FlatAll(_)
FlatAll(items) == IF Len(items) = 0 THEN <<>> ELSE Flat(Head(items)) \o FlatAll(Tail(items))
Flat(v) == IF IsList(v) THEN FlatAll(v.items) ELSE <<v>>

\* every scalar held below a section, with the names that lead to it
RECURSIVE Leaves(_, _)
RECURSIVE LeavesOfVars(_, _)
RECURSIVE LeavesOfSubs(_, _)
LeavesOfVars(vs, path) ==
  IF Len(vs) = 0 THEN <<>>
  ELSE LET fl == Flat(Head(vs).value) IN
         [i \in 1..Len(fl) |-> <<path, Head(vs).name, fl[i]>>] \o LeavesOfVars(Tail(vs), path)
LeavesOfSubs(ss, path) ==
  IF Len(ss) = 0 THEN <<>>
  ELSE Leaves(Head(ss), Append(path, Head(ss).name)) \o LeavesOfSubs(Tail(ss), path)
Leaves(section, path) ==
  LeavesOfVars(section.variables, path) \o LeavesOfSubs(section.subsections, path)

Range(seq) == {seq[i] : i \in 1..Len(seq)}

\* the bag of the members of a sequence
BagOf(seq) == [x \in Range(seq) |-> Cardinality({i \in 1..Len(seq) : seq[i] = x})]

\* every name used for a variable, and for a subsection, at any depth below
RECURSIVE AllNames(_, _)
AllNames(section, path) ==
  {<<path, "var", n>> : n \in Names(section.variables)}
    \cup {<<path, "sec", n>> : n \in Names(section.subsections)}
    \cup UNION {AllNames(section.subsections[i], Append(path, section.subsections[i].name)) :
                  i \in 1..Len(section.subsections)}

\* the caller's latest add was of a Section whose name a subsection carried
MergeCase ==
  /\ nadds > 0
  /\ IsSection(arg)
  /\ arg.name \in Names(prev.subsections)

\* C2: adding a Section B to a Section that has a subsection A of B's name
\* does not fail; afterwards there is exactly one subsection of that name, it
\* holds the variables and subsections of A and of B at every depth (the same
\* names, and the same scalars under each name, none lost and none made up),
\* and the variables and the other subsections of the target are untouched.
C2_MergeSubsection ==
  MergeCase =>
    LET A == Matching(prev.subsections, arg.name)[1]
        ms == Matching(sec.subsections, arg.name)
    IN /\ err = ""
       /\ Len(ms) = 1
       /\ AllNames(ms[1], <<>>) = AllNames(A, <<>>) \cup AllNames(arg, <<>>)
       /\ BagOf(Leaves(ms[1], <<>>)) = BagOf(Leaves(A, <<>>) \o Leaves(arg, <<>>))
       /\ \A n \in Names(A.variables) \cap Names(arg.variables) :
            IsList(Matching(ms[1].variables, n)[1].value)
       /\ sec.variables = prev.variables
       /\ Len(sec.subsections) = Len(prev.subsections)
       /\ \A i \in 1..Len(prev.subsections) :
            prev.subsections[i].name # arg.name
              => prev.subsections[i] \in Range(sec.subsections)

\* C2 witness: a merge where A and B share a variable name and a subsection
\* name, so that the rule is applied again one level down
C2_Witness ==
  /\ MergeCase
  /\ err = ""
  /\ LET A == Matching(prev.subsections, arg.name)[1] IN
       /\ Names(A.variables) \cap Names(arg.variables) # {}
       /\ Names(A.subsections) \cap Names(arg.subsections) # {}

\* the token list is `name { n1 v1 ... nk vk }`: one section, definitions only
FlatBody(toks) ==
  /\ Len(toks) >= 3 /\ Len(toks) % 2 = 1
  /\ toks[1].type = "WORD" /\ toks[2].type = "OPEN_CURLY"
  /\ toks[Len(toks)].type = "CLOSE_CURLY"
  /\ \A i \in 3..(Len(toks) - 1) :
       IF i % 2 = 1 THEN toks[i].type = "WORD" ELSE toks[i].type \in ValueTypes

\* the values the definitions of name n give it, in source order
ValuesOf(toks, n) ==
  LET at == SelectSeq([i \in 1..Len(toks) |-> i],
                      LAMBDA i : i >= 3 /\ i < Len(toks) /\ i % 2 = 1 /\ toks[i].value.s = n)
  IN [j \in 1..Len(at) |-> toks[at[j] + 1].value]

DefinedNames(toks) == {toks[i].value.s : i \in {j \in 3..(Len(toks) - 1) : j % 2 = 1}}

\* C3: a section body that defines a name n >= 2 times with v1..vn parses to
\* one Variable of that name whose value is the list [v1, ..., vn] in source
\* order; a name defined once keeps its scalar value.
C3_RepeatedVariable ==
  FlatBody(input) =>
    /\ pst \in {"run", "done"}
    /\ pst = "done" =>
         /\ Len(result) = 1 /\ Len(result[1]) = 1
         /\ LET S == result[1][1] IN
              /\ S.subsections = <<>>
              /\ Names(S.variables) = DefinedNames(input)
              /\ \A n \in DefinedNames(input) :
                   LET m == Matching(S.variables, n)
                       vs == ValuesOf(input, n)
                   IN /\ Len(m) = 1
                      /\ m[1].value = IF Len(vs) = 1 THEN vs[1] ELSE ListV(vs)

\* C3 witness: a name defined four times or more, with values of two types,
\* beside a name defined once
C3_Witness ==
  /\ pst = "done" /\ FlatBody(input)
  /\ \E n, m \in DefinedNames(input) :
       LET vs == ValuesOf(input, n) IN
         /\ Len(vs) >= 4
         /\ vs[1].k = "str" /\ vs[2].k = "int"
         /\ Len(ValuesOf(input, m)) = 1

\* the values "1", ..., "n" as strings
DigitStrings(n) == [i \in 1..n |-> StrV(<<DigitChar(i)>>)]

\* C4: the value of a definition written as an unquoted digit string is stored
\* as that string: the list text with n lines `x 1` .. `x n` parses to the
\* strings "1", ..., "n" (a list when n >= 2).
C4_DigitStringsStayStrings ==
  \A n \in 1..MaxDefs :
    (text = ListText(n) /\ pst = "done") =>
      /\ Len(result) = 1 /\ Len(result[1]) = 1
      /\ Len(result[1][1].variables) = 1
      /\ result[1][1].variables[1].value =
           IF n = 1 THEN DigitStrings(1)[1] ELSE ListV(DigitStrings(n))

Whitespace == {SP, NL}

Triple == <<HASH, HASH, HASH>>

StartsWith(t, p) == Len(t) >= Len(p) /\ SubSeq(t, 1, Len(p)) = p

HasTriple(t) == \E i \in 1..(Len(t) - 2) : SubSeq(t, i, i + 2) = Triple

\* the text consists of whitespace, line comments (`#` up to the next newline
\* or the end of the text) and block comments (`###` up to the next `###`)
RECURSIVE CommentsOnly(_)
CommentsOnly(t) ==
  IF Len(t) = 0 THEN TRUE
  ELSE IF t[1] \in Whitespace THEN CommentsOnly(Tail(t))
  ELSE IF StartsWith(t, Triple) THEN
    LET rest == SubSeq(t, 4, Len(t))
        ends == {i \in 1..(Len(rest) - 2) : SubSeq(rest, i, i + 2) = Triple}
    IN /\ ends # {}
       /\ CommentsOnly(SubSeq(rest, (CHOOSE i \in ends : \A j \in ends : i <= j) + 3, Len(rest)))
  ELSE IF t[1] = HASH THEN
    LET nls == Positions(t, NL) IN
      \/ nls = {}
      \/ CommentsOnly(SubSeq(t, CHOOSE i \in nls : \A j \in nls : i <= j, Len(t)))
  ELSE FALSE

Failed == lexst \in LexErrors \/ pst \notin {"idle", "run", "done"}

\* C5: a text of whitespace, line comments and block comments only lexes and
\* parses without any error, to a document with no top-level section.
C5_CommentsOnlyIsEmpty ==
  CommentsOnly(text) =>
    /\ ~Failed
    /\ pst = "done" => result = << <<>> >>

\* a line comment that no newline ends is about to be lexed
LineCommentToEnd ==
  /\ Lexing /\ view[1] = HASH
  /\ ~StartsWith(view, Triple)
  /\ Positions(view, NL) = {}

\* C6: a line comment that runs to the end of the input, also a `#` followed
\* by fewer than two characters, is consumed without error and without a
\* token: lexing goes on with the tokens lexed before it and an empty view.
C6_LineCommentAtEnd ==
  [][ LineCommentToEnd => (lexst' = "run" /\ tokens' = tokens /\ view' = <<>>) ]_vars

\* the lengths of the view at the start of each iteration of lex's loop
RECURSIVE Boundaries(_)
Boundaries(v) ==
  IF Len(v) = 0 THEN {0}
  ELSE LET r == LexIter(v, <<>>) IN
         {Len(v)} \cup (IF r.st = "run" THEN Boundaries(r.view) ELSE {})

\* t[i..j] is `###`, a body without `###`, `###`, with whitespace on each side
IsBlockCommentAt(t, i, j) ==
  /\ 1 < i /\ i + 5 <= j /\ j < Len(t)
  /\ SubSeq(t, i, i + 2) = Triple
  /\ SubSeq(t, j - 2, j) = Triple
  /\ ~HasTriple(SubSeq(t, i + 3, j - 3))
  /\ t[i - 1] \in Whitespace /\ t[j + 1] \in Whitespace

Without(t, i, j) == SubSeq(t, 1, i - 1) \o SubSeq(t, j + 1, Len(t))

\* in the text without the comment, the whitespace before the place of the
\* comment is met by the loop of lex: the place lies between two lexemes, not
\* inside a string literal or a comment
BetweenLexemes(t, i, j) == (Len(t) - j + 1) \in Boundaries(Without(t, i, j))

LexOutcome == [st |-> lexst, tokens |-> tokens]

\* C7 as claimed: a block comment `###`, any body without `###`, `###`, set
\* off by whitespace between two lexemes, leaves the token sequence as it is
\* for the text without the comment: when lex returns, it returns the tokens
\* it returns without the comment.
C7_AnyBlockComment ==
  lexst = "done" =>
    \A i, j \in 1..Len(text) :
      (IsBlockCommentAt(text, i, j) /\ BetweenLexemes(text, i, j))
        => LexOutcome = LexRun(Without(text, i, j), <<>>)

\* C7 amended: for a body that does not end with `#`, the outcome of lex
\* (the tokens returned, or the error raised) is the outcome for the text
\* without the comment.
C7_BlockCommentIsTransparent ==
  lexst # "run" =>
    \A i, j \in 1..Len(text) :
      (IsBlockCommentAt(text, i, j) /\ BetweenLexemes(text, i, j) /\ text[j - 3] # HASH)
        => LexOutcome = LexRun(Without(text, i, j), <<>>)

\* C7 witness: a comment of several lines whose body looks like a section,
\* after a token and before another, lexed to the end
C7_Witness ==
  /\ lexst = "done"
  /\ Len(tokens) = 2
  /\ \E i, j \in 1..Len(text) :
       /\ IsBlockCommentAt(text, i, j) /\ BetweenLexemes(text, i, j)
       /\ text[j - 3] # HASH
       /\ LET body == SubSeq(text, i + 3, j - 3) IN
            NL \in Range(body) /\ "{" \in Range(body)

\* lex is about to open a string literal that no later quote closes
OpensUnclosedString ==
  /\ Lexing /\ view[1] \in {DQ, SQ}
  /\ view[1] \notin Range(Tail(view))

\* lex is about to open a block comment that no later `###` closes
OpensUnclosedBlock ==
  /\ Lexing /\ StartsWith(view, Triple)
  /\ ~HasTriple(SubSeq(view, 4, Len(view)))

\* C8: an opening quote without a later matching quote makes lex fail with
\* UnterminatedStringLiteral, an opening `###` without a later `###` with
\* UnterminatedCommentBlock; lex returns no tokens then: none reach parse and
\* nothing is returned.
C8_UnterminatedFails ==
  [][ /\ OpensUnclosedString => lexst' = "UnterminatedStringLiteral"
      /\ OpensUnclosedBlock => lexst' = "UnterminatedCommentBlock"
      /\ (OpensUnclosedString \/ OpensUnclosedBlock)
           => (tokens' = <<>> /\ input' = <<>> /\ pst' = "idle" /\ result' = <<>>) ]_vars

\* C8 witness: lex failed on an unclosed string literal that follows a word
\* and an opening brace
C8_Witness ==
  /\ lexst = "UnterminatedStringLiteral"
  /\ Len(text) >= 4
  /\ text[1] = "x" /\ text[2] = "{" /\ text[3] \in {DQ, SQ}
  /\ pst = "idle" /\ result = <<>>

\* C9: in a section body, a WORD followed by CLOSE_CURLY or NONE makes the
\* parse fail with UnexpectedToken: no variable is added to the section, the
\* document is not changed and none is returned.
C9_NameWithoutValue ==
  [][ ( /\ InSection /\ Len(ptoks) > 1
        /\ ptoks[1].type = "WORD"
        /\ ptoks[2].type \in {"CLOSE_CURLY", "NONE"} )
        => /\ pst' = "UnexpectedToken"
           /\ stack' = stack
           /\ jacl' = jacl
           /\ result' = <<>> ]_vars

\* C9 witness: the parse failed in a section body on a name followed by NONE
C9_Witness ==
  /\ pst = "UnexpectedToken"
  /\ Len(stack) > 0
  /\ Len(ptoks) > 0 /\ ptoks[1].type = "NONE"
  /\ result = <<>>

\* C10: at top level a token that is not a WORD, and a WORD not followed by
\* OPEN_CURLY, fail the parse: no top-level token is skipped, so in an
\* accepted token list every token belongs to a top-level section.
C10_NoTopLevelTokenSkipped ==
  pst = "done" => \A i \in 1..Len(skipped) : skipped[i].depth > 0

\* the token about to be popped follows a WORD in the input
AfterWord ==
  LET p == Len(input) - Len(ptoks) IN p >= 1 /\ input[p].type = "WORD"

\* a section body's loop is about to pop a token that is neither a WORD nor
\* a CLOSE_CURLY and is not the OPEN_CURLY that follows a subsection's name
BadNameToken ==
  /\ InSection /\ Len(ptoks) > 0
  /\ ptoks[1].type \in BadNameTypes
  /\ ~(ptoks[1].type = "OPEN_CURLY" /\ AfterWord)

\* C11: in a section body, a token in name position that is neither WORD nor
\* CLOSE_CURLY (OPEN_CURLY, INTEGER, FLOAT, BOOL_TRUE, BOOL_FALSE, NONE) makes
\* the parse fail with UnexpectedToken and is not skipped.
C11_BadNameTokenFails ==
  [][ BadNameToken => (pst' = "UnexpectedToken" /\ skipped' = skipped) ]_vars

\* C12: parse returns a Document or fails with UnexpectedToken or
\* DuplicateTopLevelSection, never with another kind of failure; in particular
\* a WORD that is the last token fails with UnexpectedToken.
C12_OnlyParseErrors ==
  pst \in {"idle", "run", "done", "UnexpectedToken", "DuplicateTopLevelSection"}

\* position i of t starts a maximal run of word-chars
RunStart(t, i) == isalnum(t[i]) /\ (i = 1 \/ ~isalnum(t[i - 1]))

\* no run of word-chars starts with a quote or a `#`: the text is made of
\* words, braces and whitespace
WordsOnly(t) == \A i \in 1..Len(t) : RunStart(t, i) => t[i] \notin {DQ, SQ, HASH}

\* the length of the maximal run of word-chars at the start of t
RunLen(t) ==
  CHOOSE n \in 1..Len(t) :
    /\ \A i \in 1..n : isalnum(t[i])
    /\ n = Len(t) \/ ~isalnum(t[n + 1])

\* the token of a run: a keyword in any letter case, else an integer, else a
\* float, else the word as written
Classify(run) ==
  IF lower(run) = <<"t", "r", "u", "e">> THEN Token("BOOL_TRUE", TrueV)
  ELSE IF lower(run) = <<"f", "a", "l", "s", "e">> THEN Token("BOOL_FALSE", FalseV)
  ELSE IF lower(run) = <<"n", "o", "n", "e">> THEN Token("NONE", NoneV)
  ELSE IF IsIntLiteral(run) THEN Token("INTEGER", IntV(IntOf(run)))
  ELSE IF IsFloatLiteral(run) THEN Token("FLOAT", FloatOf(run))
  ELSE Token("WORD", StrV(run))

\* one token per maximal run and per brace, none for whitespace
RECURSIVE RunTokens(_)
RunTokens(t) ==
  IF Len(t) = 0 THEN <<>>
  ELSE IF t[1] = "{" THEN <<OPEN>> \o RunTokens(Tail(t))
  ELSE IF t[1] = "}" THEN <<CLOSE>> \o RunTokens(Tail(t))
  ELSE IF ~isalnum(t[1]) THEN RunTokens(Tail(t))
  ELSE LET n == RunLen(t) IN
         <<Classify(SubSeq(t, 1, n))>> \o RunTokens(SubSeq(t, n + 1, Len(t)))

\* C13: in a text of words, braces and whitespace, lex does not fail and
\* returns one token per maximal run of word-chars, classified as keyword (in
\* any letter case), else INTEGER, else FLOAT, else WORD with the raw string,
\* one OPEN_CURLY or CLOSE_CURLY per brace, also next to a word, and nothing
\* for whitespace.
C13_WordClassification ==
  WordsOnly(text) =>
    /\ lexst \in {"run", "done"}
    /\ lexst = "done" => tokens = RunTokens(text)

\* C13 witness: `False{1` lexed to BOOL_FALSE, OPEN_CURLY and INTEGER 1
C13_Witness ==
  /\ lexst = "done" /\ WordsOnly(text)
  /\ text = <<"F", "a", "l", "s", "e", "{", "1">>
  /\ tokens = <<Token("BOOL_FALSE", FalseV), OPEN, Token("INTEGER", IntV(1))>>

\* the member of seq that carries the name k
Named(seq, k) == CHOOSE x \in Range(seq) : x.name = k

\* C14: a keyed lookup on a Section returns the direct subsection of that
\* name when there is one (also beside a variable of that name), else the
\* value of the direct variable of that name, else fails with UnknownKey; on
\* the Root it returns the top-level Section of that name or fails with
\* UnknownKey; a lookup changes nothing of the document.
C14_KeyedLookup ==
  [][ got' # got =>
        /\ root' = root /\ rop' = rop
        /\ LET k == got'.key IN
             IF got'.on = "root" THEN
               IF k \in Names(root)
                 THEN got'.kind = "Section" /\ got'.value = Named(root, k)
                 ELSE got'.kind = "UnknownKey"
             ELSE
               LET S == root[got'.at] IN
                 IF k \in Names(S.subsections)
                   THEN got'.kind = "Section" /\ got'.value = Named(S.subsections, k)
                 ELSE IF k \in Names(S.variables)
                   THEN got'.kind = "value" /\ got'.value = Named(S.variables, k).value
                 ELSE got'.kind = "UnknownKey" ]_vars

\* C14 witness: a lookup on the second top-level section returned a
\* subsection whose name a variable of the section carries too
C14_Witness ==
  /\ got.on = "section" /\ got.at = 2
  /\ got.kind = "Section"
  /\ got.key \in Names(root[got.at].variables)
  /\ got.value.variables = <<VarYt>>

\* C20: after every JACL.add and JACL.__setitem__ call the names of the
\* top-level sections are pairwise distinct; a call fails when the value is
\* not a Section, when the key differs from its name or when the name is
\* present, and then leaves the list as it was; every other call appends the
\* section at the end of the list.
C20_TopLevelNamesDistinct ==
  [][ rop' # rop =>
        LET v == rop'.value
            fails == \/ ~IsSection(v)
                     \/ rop'.call = "set" /\ rop'.key # v.name
                     \/ v.name \in Names(root)
        IN /\ Distinct(root')
           /\ IF fails THEN rop'.err # "" /\ root' = root
                ELSE rop'.err = "" /\ root' = Append(root, v) ]_vars

\* C20 witness: with the sections t and s in the document, in the order of
\* their additions, an assignment under another key than the name failed
C20_Witness ==
  /\ Len(root) = 2 /\ root[1].name = <<"t">> /\ root[2].name = <<"s">>
  /\ rop.call = "set" /\ rop.err = "KeyMismatch"
  /\ rop.key = <<"x">> /\ rop.value.name = <<"t">>

\* every value below a section is a scalar or a list of scalars
RECURSIVE FlatValues(_)
FlatValues(S) ==
  /\ \A i \in 1..Len(S.variables) :
       LET v == S.variables[i].value IN
         \/ IsScalar(v)
         \/ IsList(v) /\ \A j \in 1..Len(v.items) : IsScalar(v.items[j])
  /\ \A i \in 1..Len(S.subsections) : FlatValues(S.subsections[i])

\* C15: in every Document a parse returns, every Variable's value is a
\* scalar or a flat list of scalars: no list holds a list, also after the
\* merge of a nested section that defines a name more than once.
C15_ListsAreFlat ==
  pst = "done" => \A i \in 1..Len(result[1]) : FlatValues(result[1][i])

NameSeq(seq) == [i \in 1..Len(seq) |-> seq[i].name]

IsPrefix(a, b) == Len(a) <= Len(b) /\ SubSeq(b, 1, Len(a)) = a

\* C16: an add keeps the order of the entries: the variables and the
\* subsections the section had keep their positions, also the one a repeated
\* name is merged into, and a new name goes to the end.
C16_MergeKeepsOrder ==
  (nadds > 0 /\ err = "") =>
    /\ IsPrefix(NameSeq(prev.variables), NameSeq(sec.variables))
    /\ IsPrefix(NameSeq(prev.subsections), NameSeq(sec.subsections))

\* lex is about to open a string literal that a later quote closes
OpensString ==
  /\ Lexing /\ view[1] \in {DQ, SQ}
  /\ view[1] \in Range(Tail(view))

\* the position of the quote that closes the string opened at view[1]
ClosingQuote ==
  CHOOSE n \in 2..Len(view) :
    view[n] = view[1] /\ \A i \in 2..(n - 1) : view[i] # view[1]

\* C17: a quoted string yields exactly one WORD token whose value is the raw
\* text between the quotes, whatever it spells (a keyword, a number) and
\* whatever it holds (whitespace, braces, `#`, the other quote); lexing goes
\* on after the closing quote.
C17_QuotedIsOneWord ==
  [][ OpensString =>
        /\ tokens' = Append(tokens, Token("WORD", StrV(SubSeq(view, 2, ClosingQuote - 1))))
        /\ view' = SubSeq(view, ClosingQuote + 1, Len(view))
        /\ lexst' = "run" ]_vars

\* C17 witness: "true" and a string holding a space, braces, `#` and the
\* other quote lexed to two WORD tokens
C17_Witness ==
  /\ lexst = "done"
  /\ text = Quoted(SQ, <<"t", "r", "u", "e">>) \o Quoted(DQ, <<"x", SP, "{", "}", HASH, SQ>>)
  /\ tokens = << Token("WORD", StrV(<<"t", "r", "u", "e">>)),
                 Token("WORD", StrV(<<"x", SP, "{", "}", HASH, SQ>>)) >>

\* C18: a Section is completed only by consuming its own CLOSE_CURLY: a
\* _parse_section call returns its section without an error only when the
\* token it popped is a CLOSE_CURLY, never because the tokens ran out.
C18_ClosedByOwnBrace ==
  [][ (InSection /\ Len(stack') < Len(stack) /\ pst' \in {"run", "done"})
        => (Len(ptoks) > 0 /\ ptoks[1].type = "CLOSE_CURLY") ]_vars

\* no two variables and no two subsections of one name, at every depth
RECURSIVE UniqueNames(_)
UniqueNames(S) ==
  /\ Distinct(S.variables)
  /\ Distinct(S.subsections)
  /\ \A i \in 1..Len(S.subsections) : UniqueNames(S.subsections[i])

\* C19: during a parse no assertion of Section.add or JACL.add fails, and
\* in every Section built (of the document, of the calls in progress and of
\* the Document returned), at every depth, no two direct variables and no two
\* direct subsections share a name.
C19_NamesUnique ==
  /\ pst # "AssertionError"
  /\ \A i \in 1..Len(jacl) : UniqueNames(jacl[i])
  /\ \A i \in 1..Len(stack) : UniqueNames(stack[i])
  /\ pst = "done" => \A i \in 1..Len(result[1]) : UniqueNames(result[1][i])

\* C19 witness: s { t { u { x 1 } .. } t { u { x 1 } u { x 1 } } } parsed:
\* the second t, whose two u were merged, was merged into the first
C19_Witness ==
  /\ pst = "done" /\ Len(result[1]) = 1
  /\ LET S == result[1][1] IN
       /\ Len(S.subsections) = 1 /\ S.subsections[1].name = <<"t">>
       /\ LET T == S.subsections[1] IN
            /\ Len(T.subsections) = 1 /\ T.subsections[1].name = <<"u">>
            /\ Len(T.subsections[1].variables) = 1
            /\ Len(T.subsections[1].variables[1].value.items) = 2
            /\ IsList(T.subsections[1].variables[1].value.items[2])

\* b is what is left of a after characters were removed from its front
IsSuffix(b, a) == Len(b) <= Len(a) /\ b = SubSeq(a, Len(a) - Len(b) + 1, Len(a))

\* C21: every iteration of lex's loop, one that raises included, removes at
\* least one character from the front of the cursor and puts none back, and
\* appends at most one token after those it has; lex returns only with an
\* empty cursor; on every input lex ends, by a return or by an exception.
C21_LexTerminates ==
  /\ [][ Lexing =>
           /\ Len(view') < Len(view)
           /\ IsSuffix(view', view)
           /\ lexst' = "run" =>
                \/ tokens' = tokens
                \/ Len(tokens') = Len(tokens) + 1 /\ SubSeq(tokens', 1, Len(tokens)) = tokens ]_vars
  /\ [](lexst = "done" => view = <<>>)
  /\ (lexst = "run") ~> (lexst # "run")

\* C21 witness: lex returned the three tokens of a text with a block comment
\* between the first and the second
C21_Witness ==
  /\ lexst = "done" /\ view = <<>>
  /\ HasTriple(text)
  /\ Len(tokens) = 3
  /\ tokens[1].type = "WORD" /\ tokens[2].type = "OPEN_CURLY"
  /\ tokens[3].type = "CLOSE_CURLY"

====
